---- MODULE Spec2Model ----
(***************************************************************************)
(* Verification model of the Wireshark OUI integration:                    *)
(*   - MacParser (src/mac-parser.js): building the prefix index from the   *)
(*     manuf file and looking addresses up in it;                          *)
(*   - ScheduledFileDownloader (src/scheduled-file-downloader.js):         *)
(*     the staleness check, the download / temp-file / rename sequence,    *)
(*     the notifications and the recurring job.                            *)
(*                                                                         *)
(* Strings are sequences of one-character strings.  A BigInt is the        *)
(* sequence of its binary digits, most significant first, without leading  *)
(* zeros (0n is the empty sequence), so 48-bit keys are exact.  A          *)
(* JavaScript Number is <<n>> for the integer n and <<>> for NaN.          *)
(***************************************************************************)
EXTENDS Integers, Sequences, FiniteSets, TLC

(* ------------------------------------------------------------------ *)
(* Characters and strings                                             *)
(* ------------------------------------------------------------------ *)

HexChars == <<"0","1","2","3","4","5","6","7","8","9","A","B","C","D","E","F">>

DecChars == <<"0","1","2","3","4","5","6","7","8","9">>

LowerAlpha == <<"a","b","c","d","e","f","g","h","i","j","k","l","m",
                "n","o","p","q","r","s","t","u","v","w","x","y","z">>

UpperAlpha == <<"A","B","C","D","E","F","G","H","I","J","K","L","M",
                "N","O","P","Q","R","S","T","U","V","W","X","Y","Z">>

IsWhitespace(c) == c \in {" ", "\t"}

ToUpperChar(c) ==
  IF \E i \in 1..26 : LowerAlpha[i] = c
    THEN UpperAlpha[CHOOSE i \in 1..26 : LowerAlpha[i] = c]
    ELSE c

\* String.prototype.toUpperCase
ToUpperCase(s) == [i \in 1..Len(s) |-> ToUpperChar(s[i])]

\* s.replace(/[-:.]/g, '')
StripSeparators(s) == SelectSeq(s, LAMBDA c : c \notin {"-", ":", "."})

IsHexDigit(c) == \E i \in 1..16 : HexChars[i] = c

IsDecDigit(c) == \E i \in 1..10 : DecChars[i] = c

HexVal(c) == (CHOOSE i \in 1..16 : HexChars[i] = c) - 1

DecVal(c) == (CHOOSE i \in 1..10 : DecChars[i] = c) - 1

RECURSIVE TrimStart(_)
TrimStart(s) ==
  IF s # <<>> /\ IsWhitespace(Head(s)) THEN TrimStart(Tail(s)) ELSE s

RECURSIVE TrimEnd(_)
TrimEnd(s) ==
  IF s # <<>> /\ IsWhitespace(s[Len(s)])
    THEN TrimEnd(SubSeq(s, 1, Len(s) - 1))
    ELSE s

\* String.prototype.trim
Trim(s) == TrimEnd(TrimStart(s))

\* s.split(c) for a one-character separator c
RECURSIVE SplitChar(_, _)
SplitChar(s, c) ==
  IF \A i \in 1..Len(s) : s[i] # c
    THEN <<s>>
    ELSE LET k == CHOOSE i \in 1..Len(s) :
                    s[i] = c /\ \A j \in 1..(i - 1) : s[j] # c
         IN  <<SubSeq(s, 1, k - 1)>> \o SplitChar(SubSeq(s, k + 1, Len(s)), c)

\* s.split(/\s+/)
RECURSIVE SplitWhitespace(_)
SplitWhitespace(s) ==
  IF \A i \in 1..Len(s) : ~IsWhitespace(s[i])
    THEN <<s>>
    ELSE LET k == CHOOSE i \in 1..Len(s) :
                    IsWhitespace(s[i]) /\ \A j \in 1..(i - 1) : ~IsWhitespace(s[j])
         IN  <<SubSeq(s, 1, k - 1)>>
               \o SplitWhitespace(TrimStart(SubSeq(s, k, Len(s))))

\* parts.join(sep)
RECURSIVE Join(_, _)
Join(parts, sep) ==
  IF parts = <<>> THEN <<>>
  ELSE IF Len(parts) = 1 THEN parts[1]
  ELSE parts[1] \o sep \o Join(Tail(parts), sep)

(* ------------------------------------------------------------------ *)
(* Numbers: JavaScript Number and BigInt                              *)
(* ------------------------------------------------------------------ *)

NaN == <<>>

Num(n) == <<n>>

IsNaN(x) == x = NaN

RECURSIVE DecPrefix(_)
DecPrefix(s) ==
  IF s # <<>> /\ IsDecDigit(Head(s)) THEN <<Head(s)>> \o DecPrefix(Tail(s)) ELSE <<>>

RECURSIVE DecValue(_, _)
DecValue(ds, acc) ==
  IF ds = <<>> THEN acc ELSE DecValue(Tail(ds), 10 * acc + DecVal(Head(ds)))

\* parseInt(s, 10): leading whitespace, an optional sign, the leading run of
\* decimal digits; NaN when there is no digit.
ParseInt(s) ==
  LET t    == TrimStart(s)
      sign == t # <<>> /\ Head(t) \in {"+", "-"}
      neg  == t # <<>> /\ Head(t) = "-"
      ds   == DecPrefix(IF sign THEN Tail(t) ELSE t)
  IN  IF ds = <<>> THEN NaN
      ELSE Num(IF neg THEN 0 - DecValue(ds, 0) ELSE DecValue(ds, 0))

Bits4(v) == <<v \div 8, (v \div 4) % 2, (v \div 2) % 2, v % 2>>

RECURSIVE HexBits(_)
HexBits(s) == IF s = <<>> THEN <<>> ELSE Bits4(HexVal(Head(s))) \o HexBits(Tail(s))

RECURSIVE Normalize(_)
Normalize(b) == IF b # <<>> /\ Head(b) = 0 THEN Normalize(Tail(b)) ELSE b

\* BigInt('0x' + s) throws a SyntaxError unless s is all hexadecimal digits
BigIntThrows(s) == \E i \in 1..Len(s) : ~IsHexDigit(ToUpperChar(s[i]))

\* BigInt('0x' + s) for a string of hexadecimal digits
BigIntFromHex(s) == Normalize(HexBits(ToUpperCase(s)))

Zeros(n) == [i \in 1..n |-> 0]

\* b << n and b >> n on BigInt; a negative count shifts the other way
ShiftLeft(b, n) ==
  IF n >= 0
    THEN (IF b = <<>> THEN <<>> ELSE b \o Zeros(n))
    ELSE (IF 0 - n >= Len(b) THEN <<>> ELSE SubSeq(b, 1, Len(b) + n))

ShiftRight(b, n) == ShiftLeft(b, 0 - n)

(* ------------------------------------------------------------------ *)
(* MacParser: the index                                               *)
(* ------------------------------------------------------------------ *)

NoEntry == [prefix |-> <<>>, vendor |-> <<>>, comment |-> <<>>]

EmptyMap == [x \in {} |-> x]

\* Map.prototype.set
MapSet(m, k, v) == [x \in (DOMAIN m) \cup {k} |-> IF x = k THEN v ELSE m[x]]

\* line.includes('\t') ? line.split('\t') : line.split(/\s+/)
LineParts(line) ==
  IF \E i \in 1..Len(line) : line[i] = "\t"
    THEN SplitChar(line, "\t")
    ELSE SplitWhitespace(line)

\* cidrPart ? parseInt(cidrPart, 10) : compactHex.length * 4
PrefixBits(tokenParts, compactHex) ==
  IF Len(tokenParts) >= 2 /\ tokenParts[2] # <<>>
    THEN ParseInt(tokenParts[2])
    ELSE Num(Len(compactHex) * 4)

\* As if _parseManuf stored the raw value of the token, unshifted.
PrefixIntRaw(compactHex, prefixBits) == BigIntFromHex(compactHex)

\* The key of a prefix token: the hex value with the excess low-order bits
\* dropped, or padded on the right when the token is narrower than the mask.
\* Both comparisons are false for NaN, which leaves the raw value.
PrefixInt(compactHex, prefixBits) ==
  LET rawInt    == BigIntFromHex(compactHex)
      bitsInHex == Len(compactHex) * 4
  IN  IF IsNaN(prefixBits) THEN rawInt
      ELSE IF bitsInHex > prefixBits[1]
        THEN ShiftRight(rawInt, bitsInHex - prefixBits[1])
      ELSE IF bitsInHex < prefixBits[1]
        THEN ShiftLeft(rawInt, prefixBits[1] - bitsInHex)
      ELSE rawInt

\* One iteration of the loop of _parseManuf: the line is skipped, throws, or
\* yields (prefixBits, prefixInt, entry).
ParseLine(rawLine) ==
  LET line == Trim(rawLine)
  IN  IF line = <<>> \/ Head(line) = "#"
        THEN [kind |-> "skip", bits |-> NaN, key |-> <<>>, entry |-> NoEntry]
      ELSE
        LET parts == LineParts(line)
        IN  IF Len(parts) < 2
              THEN [kind |-> "skip", bits |-> NaN, key |-> <<>>, entry |-> NoEntry]
            ELSE
              LET prefixToken == Trim(parts[1])
                  vendor      == Trim(parts[2])
                  sep         == IF \E k \in 1..Len(parts) : parts[k] = <<"\t">>
                                   THEN <<"\t">> ELSE <<" ">>
                  comment     == Trim(Join(SubSeq(parts, 3, Len(parts)), sep))
                  tokenParts  == SplitChar(prefixToken, "/")
                  compactHex  == ToUpperCase(StripSeparators(tokenParts[1]))
                  prefixBits  == PrefixBits(tokenParts, compactHex)
              IN  IF BigIntThrows(compactHex)
                    THEN [kind |-> "throw", bits |-> NaN, key |-> <<>>, entry |-> NoEntry]
                    ELSE [kind  |-> "entry",
                          bits  |-> prefixBits,
                          key   |-> PrefixInt(compactHex, prefixBits),
                          entry |-> [prefix  |-> prefixToken,
                                     vendor  |-> vendor,
                                     comment |-> comment]]

\* The loop of _parseManuf over the lines from position i.  byBits is the local
\* map built so far and keys the order in which its keys were inserted (a Map
\* iterates in insertion order).  threw: a line raised, byBits being the map
\* at that point.
RECURSIVE ParseLines(_, _, _, _)
ParseLines(lines, i, byBits, keys) ==
  IF i > Len(lines) THEN [threw |-> FALSE, byBits |-> byBits, keys |-> keys]
  ELSE LET r == ParseLine(lines[i])
       IN  IF r.kind = "skip" THEN ParseLines(lines, i + 1, byBits, keys)
           ELSE IF r.kind = "throw" THEN [threw |-> TRUE, byBits |-> byBits, keys |-> keys]
           ELSE LET has   == r.bits \in DOMAIN byBits
                    inner == IF has THEN byBits[r.bits] ELSE EmptyMap
                IN  ParseLines(lines, i + 1,
                               MapSet(byBits, r.bits, MapSet(inner, r.key, r.entry)),
                               IF has THEN keys ELSE Append(keys, r.bits))

\* The manuf file on disk: missing, not a gzip stream, or gzip of text lines.
MissingFile == [kind |-> "missing", lines |-> <<>>]

CorruptFile == [kind |-> "corrupt", lines |-> <<>>]

TextFile(lines) == [kind |-> "ok", lines |-> lines]

\* readFileSync + gunzipSync + the loop: the whole of _parseManuf up to line 113
ParseManuf(file) ==
  IF file.kind # "ok" THEN [threw |-> TRUE, byBits |-> EmptyMap, keys |-> <<>>]
  ELSE ParseLines(file.lines, 1, EmptyMap, <<>>)

\* The comparator (a, b) => b - a as the sort sees it: a NaN result counts as 0.
CompareLens(a, b) == IF IsNaN(a) \/ IsNaN(b) THEN 0 ELSE b[1] - a[1]

Reverse(q) == [i \in 1..Len(q) |-> q[Len(q) + 1 - i]]

\* The length of the run that starts the array: elements are taken while the
\* comparison with their predecessor keeps the direction of the first pair.
RECURSIVE RunLength(_, _, _)
RunLength(arr, idx, descending) ==
  IF idx > Len(arr) THEN idx - 1
  ELSE LET order == CompareLens(arr[idx], arr[idx - 1])
       IN  IF (descending /\ order >= 0) \/ (~descending /\ order < 0)
             THEN idx - 1
             ELSE RunLength(arr, idx + 1, descending)

\* Binary search of the position of pivot among arr[left .. right-1]
RECURSIVE InsertionPoint(_, _, _, _)
InsertionPoint(arr, pivot, left, right) ==
  IF left >= right THEN left
  ELSE LET mid == left + ((right - left) \div 2)
       IN  IF CompareLens(pivot, arr[mid]) < 0
             THEN InsertionPoint(arr, pivot, left, mid)
             ELSE InsertionPoint(arr, pivot, mid + 1, right)

\* Binary insertion of arr[start], arr[start+1], ... into the sorted part before them
RECURSIVE BinaryInsertionSort(_, _)
BinaryInsertionSort(arr, start) ==
  IF start > Len(arr) THEN arr
  ELSE LET pivot == arr[start]
           left  == InsertionPoint(arr, pivot, 1, start)
       IN  BinaryInsertionSort(
             SubSeq(arr, 1, left - 1) \o <<pivot>> \o SubSeq(arr, left, start - 1)
               \o SubSeq(arr, start + 1, Len(arr)),
             start + 1)

\* [...byBits.keys()].sort((a, b) => b - a) as Node's engine sorts an array of
\* fewer than 64 elements: the leading run is found (and reversed when it runs
\* against the comparator), the remaining elements are inserted by binary
\* insertion.  Descending order when every key is a number; with a NaN key the
\* comparator answers 0 for every pair that involves it.
SortLens(keys) ==
  IF Len(keys) < 2 THEN keys
  ELSE LET descending == CompareLens(keys[2], keys[1]) < 0
           run        == RunLength(keys, 3, descending)
           made       == IF descending
                           THEN Reverse(SubSeq(keys, 1, run)) \o SubSeq(keys, run + 1, Len(keys))
                           ELSE keys
       IN  BinaryInsertionSort(made, run + 1)

(* ------------------------------------------------------------------ *)
(* MacParser: lookup                                                  *)
(* ------------------------------------------------------------------ *)

\* mac.replace(/[-:.]/g, '').toUpperCase()
Compact(mac) == ToUpperCase(StripSeparators(mac))

\* /^[0-9A-F]{6,12}$/.test(compact)
Accepted(compact) ==
  /\ Len(compact) >= 6
  /\ Len(compact) <= 12
  /\ \A i \in 1..Len(compact) : IsHexDigit(compact[i])

\* The for loop of lookup from position i of the length list.  BigInt(48 - bits)
\* raises a RangeError for a NaN length.
RECURSIVE ScanLens(_, _, _, _)
ScanLens(ents, lens, macInt, i) ==
  IF i > Len(lens) THEN [kind |-> "null", entry |-> NoEntry]
  ELSE LET bits == lens[i]
       IN  IF IsNaN(bits) THEN [kind |-> "throw", entry |-> NoEntry]
           ELSE LET key == ShiftRight(macInt, 48 - bits[1])
                IN  IF bits \in DOMAIN ents /\ key \in DOMAIN ents[bits]
                      THEN [kind |-> "hit", entry |-> ents[bits][key]]
                      ELSE ScanLens(ents, lens, macInt, i + 1)

\* lookup after `await this.init()`
Lookup(ents, lens, mac) ==
  LET compact == Compact(mac)
  IN  IF ~Accepted(compact) THEN [kind |-> "null", entry |-> NoEntry]
      ELSE ScanLens(ents, lens, BigIntFromHex(compact), 1)

(* ------------------------------------------------------------------ *)
(* Inputs: reference lines and addresses                              *)
(* ------------------------------------------------------------------ *)

\* `AC-DE-48`: no bit count, a 24-bit prefix
LineAcme24 ==
  <<"A","C","-","D","E","-","4","8","\t","A","c","m","e">>

\* a 36-bit block inside AC:DE:48
LineAcme36 ==
  <<"A","C",":","D","E",":","4","8",":","1","0",":","0","0",":","0","0","/","3","6","\t","S","u","b","\t","l","a","b"," ","n","e","t">>

\* a token wider than its bit count
LineCisco16 ==
  <<"0","0",":","0","0",":","0","C","/","1","6","\t","C","i","s","c","o","\t","E","a","r","l","y"," ","c","a","r","d","s">>

\* whitespace-separated, the key of LineAcme24 again
LineOther24 ==
  <<"a","c","d","e","4","8"," ","O","t","h","e","r"," ","u","n","i","t"," ","t","w","o">>

\* a token narrower than its bit count
LineWide28 ==
  <<"0","A",":","B","C","/","2","8","\t","P","a","d">>

\* a bit count above 48
LineBits64 ==
  <<"A","C",":","D","E",":","4","8","/","6","4","\t","W","i","d","e">>

\* a non-numeric bit count
LineNanBits ==
  <<"0","0",":","1","B",":","C","5","/","x","y","\t","N","a","n">>

\* a prefix token that is not hexadecimal
LineNotHex ==
  <<"Z","Z",":","0","0",":","0","1","\t","B","a","d">>

\* a single field
LineOneField ==
  <<"L","o","n","e","l","y">>

\* a comment line
LineComment ==
  <<"#"," ","c","o","m","m","e","n","t">>

BlankLine == <<>>

CatalogueLines ==
  {LineAcme24, LineAcme36, LineCisco16, LineOther24, LineWide28,
   LineBits64, LineNanBits, LineNotHex, LineOneField, LineComment, BlankLine}

\* 12 digits, inside AC:DE:48 only
MacAcmeFull ==
  <<"A","C",":","D","E",":","4","8",":","1","2",":","3","4",":","5","6">>

\* 12 digits, inside the 36-bit block
MacAcmeSub ==
  <<"a","c","-","d","e","-","4","8","-","1","0","-","0","f","-","f","f">>

\* 10 digits beginning AC:DE:48
MacAcme10 ==
  <<"A","C","D","E",".","4","8","1","2",".","3","4">>

\* 6 digits: the OUI itself
MacAcme6 ==
  <<"A","C","D","E","4","8">>

\* 12 digits beginning 00:00
MacZero16 ==
  <<"0","0",":","0","0",":","5","5",":","1","1",":","2","2",":","3","3">>

\* 12 digits matching no line
MacFF ==
  <<"F","F",":","0","0",":","0","C",":","1","1",":","2","2",":","3","3">>

\* 7 digits
MacSeven ==
  <<"1","2","3","4","5","6","7">>

\* 4 digits
MacFour ==
  <<"1","2",":","3","4">>

\* not hexadecimal
MacNotHex ==
  <<"n","o","t","-","h","e","x">>

\* 13 digits
MacThirteen ==
  <<"A","C","D","E","4","8","1","2","3","4","5","6","7">>

Macs ==
  {MacAcmeFull, MacAcmeSub, MacAcme10, MacAcme6, MacZero16,
   MacFF, MacSeven, MacFour, MacNotHex, MacThirteen}

(* ------------------------------------------------------------------ *)
(* State                                                              *)
(* ------------------------------------------------------------------ *)

VARIABLES
  manufFile,    \* the file at manufPath
  entries,      \* MacParser._entries: prefixBits -> (prefixInt -> entry)
  entriesKeys,  \* MacParser._entries: its keys in insertion order
  sortedLens,   \* MacParser._sortedLens
  ready,        \* MacParser._ready
  pc,           \* where each call of lookup / reinitialize stands
  arg,          \* the mac of each lookup call
  result,       \* what each call returned or raised
  entriesFrom,  \* history: the file content _entries was built from
  lensFrom      \* history: the file content _sortedLens was built from

VARIABLES
  now,                \* the clock (Date.now(), new Date())
  destIno,            \* the inode at filePath, 0 when there is no such file
  tmpIno,             \* the inode at `${filePath}.tmp-${t}` for each t, 0 when none
  inodes,             \* the files: content and modification time
  throwErrorsOnInit,  \* ScheduledFileDownloader.throwErrorsOnInit
  hasErrorListener,   \* EventEmitter: some listener of 'error' is registered
  job,                \* ScheduledFileDownloader.job, 0 for null
  jobs,               \* node-schedule: each registration made, since when, cancelled or not
  fired,              \* node-schedule: the (job, time) invocations made
  ipc,                \* where each call of init() stands
  checked,            \* history: what each init() call found when it checked the file
  att,                \* the calls of _downloadFile
  initEvents          \* the events init() itself emitted

VARIABLES
  parser,          \* part_002: `parser`, 0 for null, else the number of a MacParser
  fileDownloader,  \* part_002: `fileDownloader`, 0 for null, else the number of a downloader
  parsers,         \* the MacParser objects made by the coordinator
  downloaders,     \* the ScheduledFileDownloader objects made by the coordinator
  calls,           \* the calls of doLookup
  reinits,         \* the calls of parser.reinitialize() made by manufFileUpdated
  refreshes,       \* the calls of _downloadFile made by the jobs: downloader of each
  downloads,       \* history: how many calls of _downloadFile were made
  built            \* history: some _parseManuf ran to its end

cvars == <<parser, fileDownloader, parsers, downloaders, calls, reinits, refreshes, downloads,
           built>>

dvars == <<now, destIno, tmpIno, inodes, throwErrorsOnInit, hasErrorListener, job, jobs, fired, ipc,
           checked, att, initEvents>>

pvars == <<manufFile, entries, entriesKeys, sortedLens, ready, pc, arg, result, entriesFrom, lensFrom>>

\* Bounds of the input space
MaxLines == 2

LookupTasks == {"L1"}

ReinitTasks == {"R1", "R2"}

Tasks == LookupTasks \cup ReinitTasks

RECURSIVE SeqsUpTo(_, _)
SeqsUpTo(S, n) ==
  IF n = 0 THEN {<<>>}
  ELSE LET shorter == SeqsUpTo(S, n - 1)
       IN  shorter \cup {Append(q, x) : q \in shorter, x \in S}

\* every reference file of at most MaxLines catalogue lines, or no usable file
IndexFiles ==
  {MissingFile, CorruptFile} \cup {TextFile(ls) : ls \in SeqsUpTo(CatalogueLines, MaxLines)}

\* the contents a rebuild may find at manufPath
RebuildFiles ==
  {MissingFile, CorruptFile,
   TextFile(<<LineAcme24>>),
   TextFile(<<LineAcme36, LineOther24>>),
   TextFile(<<LineCisco16, LineNotHex>>)}

RebuildMacs == {MacAcmeFull, MacAcmeSub, MacZero16}

NoResult == [kind |-> "none", entry |-> NoEntry, file |-> MissingFile]

Finished == {"idle", "returned", "rejected", "resolved"}

\* As if _parseManuf awaited between its two assignments.
BusyNever == FALSE

\* _parseManuf has no await: between its two assignments (lines 115 and 116)
\* no other call runs.
Busy == \E u \in Tasks : pc[u] = "line116"

ParserInit(files) ==
  /\ manufFile \in files
  /\ entries = EmptyMap
  /\ entriesKeys = <<>>
  /\ sortedLens = <<>>
  /\ ready = FALSE
  /\ pc = [t \in Tasks |-> "idle"]
  /\ arg = [t \in Tasks |-> <<>>]
  /\ result = [t \in Tasks |-> NoResult]
  /\ entriesFrom = MissingFile
  /\ lensFrom = MissingFile

(* ------------------------------------------------------------------ *)
(* ScheduledFileDownloader: state                                     *)
(* ------------------------------------------------------------------ *)

\* Bounds: the clock stops at MaxTime, at most MaxAttempts calls of
\* _downloadFile are followed, a fetch returns one of NPayloads bodies.
MaxTime == 4

MaxAttempts == 2

NPayloads == 2

\* The cron expression, as the distance between two trigger times
CronPeriod == 2

Inits == {"init1", "init2"}

Attempts == 1..MaxAttempts

Payloads == 1..NPayloads

\* the bytes of payload p: p bytes, each of value p
Content(p) == [k \in 1..p |-> p]

NoAttempt ==
  [pc |-> "unused", origin |-> "none", emitErrors |-> FALSE, body |-> <<>>,
   tmp |-> 0, fd |-> 0, events |-> <<>>, caught |-> "none"]

NoCheck == [kind |-> "none", mtime |-> 0, now |-> 0]

\* The coordinator (part_002): the calls of doLookup that are followed and the
\* entity lists they are given
Calls == {"c1", "c2"}

EntityLists == {<<MacAcmeFull>>, <<MacAcmeFull, MacZero16>>}

NoCall ==
  [pc |-> "idle", autoUpdate |-> FALSE, entities |-> <<>>, results |-> <<>>, cb |-> <<>>,
   d |-> 0, p |-> 0, after |-> FALSE, parses |-> 0]

\* new MacParser({eager: false, ...})
NewParser ==
  [ready |-> FALSE, entries |-> EmptyMap, entriesKeys |-> <<>>, sortedLens |-> <<>>,
   from |-> MissingFile]

\* new ScheduledFileDownloader(...) with its two listeners registered
NewDownloader == [listeners |-> TRUE, job |-> FALSE]

\* the module at load: `let parser = null; let fileDownloader = null`
CoordinatorIdle ==
  /\ parser = 0
  /\ fileDownloader = 0
  /\ parsers = <<>>
  /\ downloaders = <<>>
  /\ calls = [c \in Calls |-> NoCall]
  /\ reinits = <<>>
  /\ refreshes = <<>>
  /\ downloads = 0
  /\ built = FALSE

DownloaderIdle ==
  /\ CoordinatorIdle
  /\ now = 0
  /\ destIno = 0
  /\ tmpIno = [t \in 0..MaxTime |-> 0]
  /\ inodes = <<>>
  /\ throwErrorsOnInit = FALSE
  /\ hasErrorListener = FALSE
  /\ job = 0
  /\ jobs = <<>>
  /\ fired = {}
  /\ ipc = [i \in Inits |-> "idle"]
  /\ checked = [i \in Inits |-> NoCheck]
  /\ att = [a \in Attempts |-> NoAttempt]
  /\ initEvents = <<>>

vars == <<pvars, dvars, cvars>>

(* ------------------------------------------------------------------ *)
(* MacParser: the calls                                               *)
(* ------------------------------------------------------------------ *)

\* lookup(mac) up to its first await: init() returns at once when _ready,
\* otherwise it awaits _ensureManufFile.
LookupCall(t, mac) ==
  /\ ~Busy
  /\ pc[t] \in Finished
  /\ pc' = [pc EXCEPT ![t] = IF ready THEN "awaitInit" ELSE "awaitAccess"]
  /\ arg' = [arg EXCEPT ![t] = mac]
  /\ result' = [result EXCEPT ![t] = NoResult]
  /\ UNCHANGED <<manufFile, entries, entriesKeys, sortedLens, ready, entriesFrom, lensFrom,
                 dvars, cvars>>

\* reinitialize() up to its await of _ensureManufFile
ReinitCall(t) ==
  /\ ~Busy
  /\ pc[t] \in Finished
  /\ pc' = [pc EXCEPT ![t] = "awaitAccess"]
  /\ result' = [result EXCEPT ![t] = NoResult]
  /\ UNCHANGED <<manufFile, entries, entriesKeys, sortedLens, ready, arg, entriesFrom, lensFrom,
                 dvars, cvars>>

\* fs.promises.access(manufPath, R_OK) settles
EnsureManufFile(t) ==
  /\ ~Busy
  /\ pc[t] = "awaitAccess"
  /\ IF manufFile.kind = "missing"
       THEN /\ pc' = [pc EXCEPT ![t] = "rejected"]
            /\ result' = [result EXCEPT ![t] =
                 [kind |-> "accessError", entry |-> NoEntry, file |-> manufFile]]
       ELSE /\ pc' = [pc EXCEPT ![t] = "parse"]
            /\ UNCHANGED result
  /\ UNCHANGED <<manufFile, entries, entriesKeys, sortedLens, ready, arg, entriesFrom, lensFrom,
                 dvars, cvars>>

\* As if _parseManuf filled this._entries in place instead of a local map.
ParseManufBuildInPlace(t) ==
  /\ ~Busy
  /\ pc[t] = "parse"
  /\ LET r == ParseManuf(manufFile)
     IN  /\ entries' = r.byBits
         /\ entriesKeys' = r.keys
         /\ IF r.threw
              THEN /\ pc' = [pc EXCEPT ![t] = "rejected"]
                   /\ result' = [result EXCEPT ![t] =
                        [kind |-> "parseError", entry |-> NoEntry, file |-> manufFile]]
                   /\ UNCHANGED entriesFrom
              ELSE /\ pc' = [pc EXCEPT ![t] = "line116"]
                   /\ entriesFrom' = manufFile
                   /\ UNCHANGED result
  /\ UNCHANGED <<manufFile, sortedLens, ready, arg, lensFrom,
                 dvars, cvars>>

\* _parseManuf, lines 72-115: read, gunzip and parse into the local byBits, then
\* assign _entries; a throw leaves the parser as it was and rejects the call.
ParseManufBuild(t) ==
  /\ ~Busy
  /\ pc[t] = "parse"
  /\ LET r == ParseManuf(manufFile)
     IN  IF r.threw
           THEN /\ pc' = [pc EXCEPT ![t] = "rejected"]
                /\ result' = [result EXCEPT ![t] =
                     [kind |-> "parseError", entry |-> NoEntry, file |-> manufFile]]
                /\ UNCHANGED <<entries, entriesKeys, entriesFrom>>
           ELSE /\ pc' = [pc EXCEPT ![t] = "line116"]
                /\ entries' = r.byBits
                /\ entriesKeys' = r.keys
                /\ entriesFrom' = manufFile
                /\ UNCHANGED result
  /\ UNCHANGED <<manufFile, sortedLens, ready, arg, lensFrom,
                 dvars, cvars>>

\* _parseManuf, line 116, then `this._ready = true` of init / reinitialize
ParseManufSort(t) ==
  /\ pc[t] = "line116"
  /\ sortedLens' = SortLens(entriesKeys)
  /\ lensFrom' = entriesFrom
  /\ ready' = TRUE
  /\ pc' = [pc EXCEPT ![t] = IF t \in LookupTasks THEN "awaitInit" ELSE "resolved"]
  /\ UNCHANGED <<manufFile, entries, entriesKeys, arg, result, entriesFrom,
                 dvars, cvars>>

\* lookup after `await this.init()`: lines 45-55
LookupScan(t) ==
  /\ ~Busy
  /\ pc[t] = "awaitInit"
  /\ LET r == Lookup(entries, sortedLens, arg[t])
     IN  /\ result' = [result EXCEPT ![t] =
               [kind |-> r.kind, entry |-> r.entry, file |-> entriesFrom]]
         /\ pc' = [pc EXCEPT ![t] = IF r.kind = "throw" THEN "rejected" ELSE "returned"]
  /\ UNCHANGED <<manufFile, entries, entriesKeys, sortedLens, ready, arg, entriesFrom, lensFrom,
                 dvars, cvars>>

\* The file at manufPath is replaced (the downloader's rename) or removed.
FileReplaced ==
  /\ ~Busy
  /\ \E f \in RebuildFiles : f # manufFile /\ manufFile' = f
  /\ UNCHANGED <<entries, entriesKeys, sortedLens, ready, pc, arg, result, entriesFrom, lensFrom,
                 dvars, cvars>>

(* ------------------------------------------------------------------ *)
(* Specifications of the parser                                       *)
(* ------------------------------------------------------------------ *)

\* One index built from any reference file, and lookups in it.
IndexInit == ParserInit(IndexFiles) /\ DownloaderIdle

IndexNext ==
  \E t \in LookupTasks :
    \/ \E mac \in Macs : LookupCall(t, mac)
    \/ EnsureManufFile(t)
    \/ ParseManufBuild(t)
    \/ ParseManufSort(t)
    \/ LookupScan(t)

SpecIndex == IndexInit /\ [][IndexNext]_vars

\* Lookups interleaved with rebuilds while the file changes.
RebuildInit == ParserInit(RebuildFiles) /\ DownloaderIdle

RebuildNext ==
  \/ \E t \in LookupTasks, mac \in RebuildMacs : LookupCall(t, mac)
  \/ \E t \in ReinitTasks : ReinitCall(t)
  \/ \E t \in Tasks : EnsureManufFile(t)
  \/ \E t \in Tasks : ParseManufBuild(t)
  \/ \E t \in Tasks : ParseManufSort(t)
  \/ \E t \in LookupTasks : LookupScan(t)
  \/ FileReplaced

SpecRebuild == RebuildInit /\ [][RebuildNext]_vars

(* ------------------------------------------------------------------ *)
(* ScheduledFileDownloader: the staleness check and the job           *)
(* ------------------------------------------------------------------ *)

\* CronExpressionParser.parse(cron, {currentDate: t}).prev(): the last trigger
\* time before t.  Trigger times are the multiples of CronPeriod.
PrevTrigger(t) ==
  CHOOSE d \in (0 - CronPeriod)..(t - 1) : d % CronPeriod = 0 /\ d + CronPeriod >= t

\* As if the comparison of _isExpired were written the other way round.
IsExpiredNewer(exists, mtime, t) == ~exists \/ mtime > PrevTrigger(t)

\* _isExpired when stat answers: ENOENT (no file) is expired, otherwise the
\* file is expired when its mtime is before the last trigger time.
IsExpired(exists, mtime, t) == ~exists \/ mtime < PrevTrigger(t)

HasFreeAttempt == \E a \in Attempts : att[a].pc = "unused"

FreeAttempt ==
  CHOOSE a \in Attempts : att[a].pc = "unused" /\ \A b \in 1..(a - 1) : att[b].pc # "unused"

\* a call _downloadFile({emitErrors}) begins: the request is sent
StartDownload(origin, emitErrors) ==
  [NoAttempt EXCEPT !.pc = "request", !.origin = origin, !.emitErrors = emitErrors]

\* As if _scheduleRecurringJob registered without cancelling this.job first.
ScheduleRecurringJobNoCancel(i) ==
  /\ jobs' = Append(jobs, [since |-> now, cancelled |-> FALSE, by |-> i])
  /\ job' = Len(jobs) + 1

\* _scheduleRecurringJob, called by the init() call i: cancel the registration
\* held in this.job, register anew
ScheduleRecurringJob(i) ==
  /\ jobs' = Append(IF job # 0 THEN [jobs EXCEPT ![job].cancelled = TRUE] ELSE jobs,
                    [since |-> now, cancelled |-> FALSE, by |-> i])
  /\ job' = Len(jobs) + 1

\* init() is called
InitCall(i) ==
  /\ ipc[i] = "idle"
  /\ ipc' = [ipc EXCEPT ![i] = "stat"]
  /\ UNCHANGED <<now, destIno, tmpIno, inodes, throwErrorsOnInit, hasErrorListener, job, jobs, fired,
                 checked, att, initEvents,
                 pvars, cvars>>

\* init(), lines 61-80, from the moment stat settles: statError is a failure of
\* stat other than ENOENT.  The call throws, starts the first download, or
\* (file not expired) installs the job and returns.  emit('error', ...) of
\* line 67 itself throws when no listener of 'error' is registered
\* (EventEmitter), and that exception leaves init().
InitCheck(i, statError) ==
  /\ ipc[i] = "stat"
  /\ LET exists  == destIno # 0
         mtime   == IF exists THEN inodes[destIno].mtime ELSE 0
         expired == IF statError THEN TRUE ELSE IsExpired(exists, mtime, now)
     IN  /\ checked' = [checked EXCEPT ![i] =
               [kind  |-> IF statError THEN "error" ELSE IF exists THEN "present" ELSE "absent",
                mtime |-> mtime, now |-> now]]
         /\ IF statError /\ throwErrorsOnInit
              THEN /\ ipc' = [ipc EXCEPT ![i] = "thrown"]
                   /\ UNCHANGED <<job, jobs, att, initEvents>>
            ELSE IF statError /\ ~hasErrorListener
              THEN /\ ipc' = [ipc EXCEPT ![i] = "thrown"]
                   /\ initEvents' = Append(initEvents, "error:init")
                   /\ UNCHANGED <<job, jobs, att>>
            ELSE
              /\ initEvents' = IF statError THEN Append(initEvents, "error:init")
                                            ELSE initEvents
              /\ IF expired
                   THEN /\ HasFreeAttempt
                        /\ att' = [att EXCEPT ![FreeAttempt] =
                                     StartDownload(i, ~throwErrorsOnInit)]
                        /\ ipc' = [ipc EXCEPT ![i] = "download"]
                        /\ UNCHANGED <<job, jobs>>
                   ELSE /\ ScheduleRecurringJob(i)
                        /\ ipc' = [ipc EXCEPT ![i] = "done"]
                        /\ UNCHANGED att
  /\ UNCHANGED <<now, destIno, tmpIno, inodes, throwErrorsOnInit, hasErrorListener, fired,
                 pvars, cvars>>

\* The job's callback runs at a trigger time after its registration:
\* `await this._downloadFile()` inside try / catch.
JobFires(j) ==
  /\ j \in 1..Len(jobs)
  /\ ~jobs[j].cancelled
  /\ now % CronPeriod = 0
  /\ now > jobs[j].since
  /\ <<j, now>> \notin fired
  /\ HasFreeAttempt
  /\ fired' = fired \cup {<<j, now>>}
  /\ att' = [att EXCEPT ![FreeAttempt] = StartDownload("job", TRUE)]
  /\ UNCHANGED <<now, destIno, tmpIno, inodes, throwErrorsOnInit, hasErrorListener, job, jobs, ipc,
                 checked, initEvents,
                 pvars, cvars>>

\* time passes
Tick ==
  /\ now < MaxTime
  /\ now' = now + 1
  /\ UNCHANGED <<destIno, tmpIno, inodes, throwErrorsOnInit, hasErrorListener, job, jobs, fired, ipc,
                 checked, att, initEvents,
                 pvars, cvars>>

(* ------------------------------------------------------------------ *)
(* ScheduledFileDownloader: _downloadFile                             *)
(* ------------------------------------------------------------------ *)

\* The call a of _downloadFile ends as record rec says, by `throw err` (failed)
\* or by returning.  A call made by init() resumes init(), lines 74-80: it
\* rethrows when throwErrorsOnInit, and installs the job otherwise.  A call
\* made by the job's callback resumes it, lines 148-152: the catch block
\* swallows the exception.
DownloadEnds(a, rec, failed) ==
  /\ att' = [att EXCEPT ![a] =
       [rec EXCEPT !.caught = IF ~failed THEN "none"
                              ELSE IF rec.origin \in Inits THEN "init:74"
                              ELSE "callback:150"]]
  /\ IF rec.origin \in Inits
       THEN IF failed /\ throwErrorsOnInit
              THEN /\ ipc' = [ipc EXCEPT ![rec.origin] = "thrown"]
                   /\ UNCHANGED <<job, jobs>>
              ELSE /\ ipc' = [ipc EXCEPT ![rec.origin] = "done"]
                   /\ ScheduleRecurringJob(rec.origin)
       ELSE UNCHANGED <<ipc, job, jobs>>

\* As if both catch blocks of _downloadFile reported the stage `download`.
DownloadFailsStageDownload(a, stage) ==
  DownloadEnds(a,
    [att[a] EXCEPT !.pc = "failed",
                   !.events = IF att[a].emitErrors THEN Append(@, "error:download") ELSE @],
    TRUE)

\* the catch blocks of _downloadFile: emit 'error' with the stage when
\* emitErrors, then rethrow (with no listener of 'error' it is emit that
\* throws: the call fails all the same)
DownloadFails(a, stage) ==
  DownloadEnds(a,
    [att[a] EXCEPT !.pc = "failed",
                   !.events = IF att[a].emitErrors THEN Append(@, stage) ELSE @],
    TRUE)

\* Step 1, lines 109-124.  status 0 stands for a transport failure.
Request(a, status, payload) ==
  /\ att[a].pc = "request"
  /\ IF status = 0 \/ status < 200 \/ status >= 300
       THEN DownloadFails(a, "error:download")
       ELSE /\ att' = [att EXCEPT ![a].pc = "mkdir", ![a].body = Content(payload)]
            /\ UNCHANGED <<ipc, job, jobs>>
  /\ UNCHANGED <<now, destIno, tmpIno, inodes, throwErrorsOnInit, hasErrorListener, fired, checked, initEvents,
                 pvars, cvars>>

\* Lines 128-129: mkdir settles; on success the temporary name is made of Date.now()
Mkdir(a, ok) ==
  /\ att[a].pc = "mkdir"
  /\ IF ok
       THEN /\ att' = [att EXCEPT ![a].pc = "open", ![a].tmp = now]
            /\ UNCHANGED <<ipc, job, jobs>>
       ELSE DownloadFails(a, "error:write")
  /\ UNCHANGED <<now, destIno, tmpIno, inodes, throwErrorsOnInit, hasErrorListener, fired, checked, initEvents,
                 pvars, cvars>>

\* Line 130, writeFile(tmp, body), first half: the file is opened with flag 'w',
\* which creates it or truncates the file already at that name.
WriteFileOpen(a, ok) ==
  /\ att[a].pc = "open"
  /\ IF ok
       THEN LET existing == tmpIno[att[a].tmp]
                ino      == IF existing # 0 THEN existing ELSE Len(inodes) + 1
                empty    == [content |-> <<>>, mtime |-> now]
            IN  /\ inodes' = IF existing # 0 THEN [inodes EXCEPT ![ino] = empty]
                                               ELSE Append(inodes, empty)
                /\ tmpIno' = [tmpIno EXCEPT ![att[a].tmp] = ino]
                /\ att' = [att EXCEPT ![a].pc = "write", ![a].fd = ino]
                /\ UNCHANGED <<ipc, job, jobs>>
       ELSE /\ DownloadFails(a, "error:write")
            /\ UNCHANGED <<inodes, tmpIno>>
  /\ UNCHANGED <<now, destIno, throwErrorsOnInit, hasErrorListener, fired, checked, initEvents,
                 pvars, cvars>>

\* the bytes of a file after data is written at its start
Overwrite(data, old) == data \o SubSeq(old, Len(data) + 1, Len(old))

\* Line 130, second half: the body is written through the open descriptor
\* (the downloader's side of the step)
WriteFileDataStep(a, ok) ==
  /\ att[a].pc = "write"
  /\ IF ok
       THEN /\ inodes' = [inodes EXCEPT ![att[a].fd] =
                            [content |-> Overwrite(att[a].body, @.content), mtime |-> now]]
            /\ att' = [att EXCEPT ![a].pc = "rename"]
            /\ UNCHANGED <<ipc, job, jobs>>
       ELSE /\ DownloadFails(a, "error:write")
            /\ UNCHANGED inodes
  /\ UNCHANGED <<now, destIno, tmpIno, throwErrorsOnInit, hasErrorListener, fired, checked,
                 initEvents>>

\* the same with no parser around
WriteFileData(a, ok) == WriteFileDataStep(a, ok) /\ UNCHANGED <<pvars, cvars>>

\* Lines 131-141: rename(tmp, filePath) settles; it fails when nothing is at the
\* temporary name any more.  On success 'updated' is emitted and the call returns
\* (the downloader's side of the step).
RenameStep(a, ok) ==
  /\ att[a].pc = "rename"
  /\ IF ok /\ tmpIno[att[a].tmp] # 0
       THEN /\ destIno' = tmpIno[att[a].tmp]
            /\ tmpIno' = [tmpIno EXCEPT ![att[a].tmp] = 0]
            /\ DownloadEnds(a, [att[a] EXCEPT !.pc = "done", !.events = Append(@, "updated")],
                            FALSE)
       ELSE /\ DownloadFails(a, "error:write")
            /\ UNCHANGED <<destIno, tmpIno>>
  /\ UNCHANGED <<now, inodes, throwErrorsOnInit, hasErrorListener, fired, checked, initEvents>>

\* the same with no listener of 'updated' that touches a parser
Rename(a, ok) == RenameStep(a, ok) /\ UNCHANGED <<pvars, cvars>>

(* ------------------------------------------------------------------ *)
(* Specification of the downloader                                    *)
(* ------------------------------------------------------------------ *)

\* One downloader, whose init() the callers call once each; at start the
\* destination is absent or holds an earlier payload.
DownloaderStart(callers) ==
  /\ ParserInit({MissingFile})
  /\ CoordinatorIdle
  /\ now \in 1..(CronPeriod + 1)
  /\ \/ destIno = 0 /\ inodes = <<>>
     \/ /\ destIno = 1
        /\ \E m \in 0..(CronPeriod + 1) :
             m <= now /\ inodes = <<[content |-> Content(1), mtime |-> m]>>
  /\ tmpIno = [t \in 0..MaxTime |-> 0]
  /\ throwErrorsOnInit \in BOOLEAN
  /\ hasErrorListener \in BOOLEAN
  /\ job = 0
  /\ jobs = <<>>
  /\ fired = {}
  /\ ipc = [i \in Inits |-> IF i \in callers THEN "idle" ELSE "uncalled"]
  /\ checked = [i \in Inits |-> NoCheck]
  /\ att = [a \in Attempts |-> NoAttempt]
  /\ initEvents = <<>>

\* init() is called once, with listeners registered as the coordinator does
\* (part_002, lines 82-88)
DownloaderInit == DownloaderStart({"init1"}) /\ hasErrorListener = TRUE

DownloaderNext ==
  \/ \E i \in Inits : InitCall(i)
  \/ \E i \in Inits, statError \in BOOLEAN : InitCheck(i, statError)
  \/ \E j \in 1..Len(jobs) : JobFires(j)
  \/ Tick
  \/ \E a \in Attempts, status \in {0, 199, 200, 299, 300}, p \in Payloads :
       Request(a, status, p)
  \/ \E a \in Attempts, ok \in BOOLEAN : Mkdir(a, ok)
  \/ \E a \in Attempts, ok \in BOOLEAN : WriteFileOpen(a, ok)
  \/ \E a \in Attempts, ok \in BOOLEAN : WriteFileData(a, ok)
  \/ \E a \in Attempts, ok \in BOOLEAN : Rename(a, ok)

SpecDownloader == DownloaderInit /\ [][DownloaderNext]_vars

\* The downloader on its own: init() is called twice, the calls may overlap,
\* and the owner may have registered no listener of 'error'.  The triggers of
\* the job are followed in SpecDownloader.
StandaloneInit == DownloaderStart(Inits) /\ now = 1

StandaloneNext ==
  \/ \E i \in Inits : InitCall(i)
  \/ \E i \in Inits, statError \in BOOLEAN : InitCheck(i, statError)
  \/ Tick
  \/ \E a \in Attempts, status \in {0, 200} : Request(a, status, 1)
  \/ \E a \in Attempts : Mkdir(a, TRUE)
  \/ \E a \in Attempts : WriteFileOpen(a, TRUE)
  \/ \E a \in Attempts : WriteFileData(a, TRUE)
  \/ \E a \in Attempts, ok \in BOOLEAN : Rename(a, ok)

SpecStandalone == StandaloneInit /\ [][StandaloneNext]_vars

(* ------------------------------------------------------------------ *)
(* The downloader and the parser on the same file (part_002)          *)
(* ------------------------------------------------------------------ *)

\* What readFileSync + gunzipSync make of the bytes of a file: payload 1 is the
\* gzip of one line, payload 2 of two lines, payload 3 of another line; any
\* other bytes (an empty file, bytes of two payloads) are no gzip stream.
Gunzip(content) ==
  IF content = Content(1) THEN TextFile(<<LineAcme24>>)
  ELSE IF content = Content(2) THEN TextFile(<<LineAcme36, LineOther24>>)
  ELSE IF content = Content(3) THEN TextFile(<<LineCisco16>>)
  ELSE CorruptFile

\* the file the parser finds at MANUF_FILE_PATH, which is the downloader's filePath
DestFile(ino, nodes) == IF ino = 0 THEN MissingFile ELSE Gunzip(nodes[ino].content)

\* The state after a startup that found the file fresh: init() installed the
\* job without a download, parser.init() built the index from the file.
RefreshInit ==
  /\ CoordinatorIdle
  /\ now = 1
  /\ destIno = 1
  /\ inodes = <<[content |-> Content(1), mtime |-> 1]>>
  /\ tmpIno = [t \in 0..MaxTime |-> 0]
  /\ throwErrorsOnInit = TRUE
  /\ hasErrorListener = TRUE
  /\ job = 1
  /\ jobs = <<[since |-> 1, cancelled |-> FALSE, by |-> "init1"]>>
  /\ fired = {}
  /\ ipc = [i \in Inits |-> IF i = "init1" THEN "done" ELSE "uncalled"]
  /\ checked = [i \in Inits |-> IF i = "init1"
                                  THEN [kind |-> "present", mtime |-> 1, now |-> 1]
                                  ELSE NoCheck]
  /\ att = [a \in Attempts |-> NoAttempt]
  /\ initEvents = <<>>
  /\ manufFile = Gunzip(Content(1))
  /\ entries = ParseManuf(manufFile).byBits
  /\ entriesKeys = ParseManuf(manufFile).keys
  /\ sortedLens = SortLens(entriesKeys)
  /\ ready = TRUE
  /\ pc = [t \in Tasks |-> "idle"]
  /\ arg = [t \in Tasks |-> <<>>]
  /\ result = [t \in Tasks |-> NoResult]
  /\ entriesFrom = manufFile
  /\ lensFrom = manufFile

\* writeFile's write, seen from the parser: the bytes of the destination change
\* when the descriptor is on the inode that is now at filePath
RefreshWriteFileData(a, ok) ==
  /\ ~Busy
  /\ WriteFileDataStep(a, ok)
  /\ manufFile' = DestFile(destIno', inodes')
  /\ UNCHANGED <<entries, entriesKeys, sortedLens, ready, pc, arg, result, entriesFrom, lensFrom,
                 cvars>>

\* emit('updated') of line 141 with the listener manufFileUpdated
\* (part_002:82,122-139): the parser exists, so parser.reinitialize() is called
\* and runs up to its await.
ManufFileUpdated(emitted) ==
  IF emitted
    THEN \E t \in ReinitTasks :
           /\ pc[t] \in Finished
           /\ \A u \in ReinitTasks : pc[u] \in Finished => (u = "R1" => t = "R1")
           /\ pc' = [pc EXCEPT ![t] = "awaitAccess"]
           /\ result' = [result EXCEPT ![t] = NoResult]
    ELSE UNCHANGED <<pc, result>>

\* rename with the coordinator listening: the file at manufPath is replaced
\* and 'updated' starts a rebuild
RefreshRename(a, ok) ==
  /\ ~Busy
  /\ RenameStep(a, ok)
  /\ manufFile' = DestFile(destIno', inodes')
  /\ ManufFileUpdated(att'[a].pc = "done")
  /\ UNCHANGED <<entries, entriesKeys, sortedLens, ready, arg, entriesFrom, lensFrom, cvars>>

RefreshNext ==
  \/ ~Busy /\ \E j \in 1..Len(jobs) : JobFires(j)
  \/ ~Busy /\ Tick
  \/ ~Busy /\ \E a \in Attempts, status \in {0, 200}, p \in Payloads : Request(a, status, p)
  \/ ~Busy /\ \E a \in Attempts : Mkdir(a, TRUE)
  \/ ~Busy /\ \E a \in Attempts : WriteFileOpen(a, TRUE)
  \/ \E a \in Attempts, ok \in BOOLEAN : RefreshWriteFileData(a, ok)
  \/ \E a \in Attempts, ok \in BOOLEAN : RefreshRename(a, ok)
  \/ \E t \in ReinitTasks : EnsureManufFile(t)
  \/ \E t \in ReinitTasks : ParseManufBuild(t)
  \/ \E t \in ReinitTasks : ParseManufSort(t)
  \/ \E t \in LookupTasks : LookupCall(t, MacAcmeFull)
  \/ \E t \in LookupTasks : LookupScan(t)

SpecRefresh == RefreshInit /\ [][RefreshNext]_vars

(* ------------------------------------------------------------------ *)
(* The coordinator: doLookup and the objects it creates (part_002)    *)
(* ------------------------------------------------------------------ *)

\* the variables of the single parser and of the single downloader followed above
objectVars ==
  <<entries, entriesKeys, sortedLens, ready, pc, arg, result, entriesFrom, lensFrom, dvars>>

\* _parseManuf and `this._ready = true` on the parser object pr, the file parsing
Parsed(pr, file) ==
  LET r == ParseManuf(file)
  IN  [pr EXCEPT !.ready = TRUE, !.entries = r.byBits, !.entriesKeys = r.keys,
                 !.sortedLens = SortLens(r.keys), !.from = file]

\* The for loop of doLookup at its next entity, cur being `parser` at that
\* moment: parser.lookup(entity.value) runs up to the await of init(), which
\* returns at once when the object is ready; after the last entity,
\* cb(null, lookupResults).
StartLoop(rec, cur) ==
  IF Len(rec.results) = Len(rec.entities)
    THEN [rec EXCEPT !.pc = "returned", !.cb = Append(@, "results")]
    ELSE [rec EXCEPT !.pc = IF parsers[cur].ready THEN "awaitInit" ELSE "awaitAccess",
                     !.p = cur]

\* doLookup(entities, options, cb) up to its first await, lines 19-23 and 67-109
\* (of the calls, which are alike, c1 is the first to be made)
DoLookup(c, autoUpdate, entities) ==
  /\ calls[c].pc = "idle"
  /\ c = "c2" => calls["c1"].pc # "idle"
  /\ LET rec == [NoCall EXCEPT !.autoUpdate = autoUpdate, !.entities = entities,
                               !.after = built]
     IN  IF fileDownloader # 0 /\ parser # 0
           THEN /\ calls' = [calls EXCEPT ![c] = [rec EXCEPT !.pc = "initialized"]]
                /\ UNCHANGED <<parser, fileDownloader, parsers, downloaders>>
         ELSE IF autoUpdate
           THEN /\ downloaders' = Append(downloaders, NewDownloader)
                /\ fileDownloader' = Len(downloaders) + 1
                /\ calls' = [calls EXCEPT ![c] =
                     [rec EXCEPT !.pc = "awaitStat", !.d = Len(downloaders) + 1]]
                /\ UNCHANGED <<parser, parsers>>
         ELSE /\ parsers' = Append(parsers, NewParser)
              /\ parser' = Len(parsers) + 1
              /\ calls' = [calls EXCEPT ![c] =
                   [rec EXCEPT !.pc = "awaitAccess109", !.p = Len(parsers) + 1]]
              /\ UNCHANGED <<fileDownloader, downloaders>>
  /\ UNCHANGED <<manufFile, reinits, refreshes, downloads, built, objectVars>>

\* fileDownloader.init() threw: lines 89-99 remove the listeners and rethrow,
\* doLookup catches and calls cb(error), lines 24-26
InitThrows(c) ==
  /\ downloaders' = [downloaders EXCEPT ![calls[c].d].listeners = FALSE]
  /\ calls' = [calls EXCEPT ![c].pc = "returned", ![c].cb = Append(@, "error")]
  /\ UNCHANGED <<parser, parsers>>

\* fileDownloader.init() returns: _scheduleRecurringJob installed the job
\* (part_000:79); then lines 102-109: parser = new MacParser, await parser.init()
InitReturns(c) ==
  /\ downloaders' = [downloaders EXCEPT ![calls[c].d].job = TRUE]
  /\ parsers' = Append(parsers, NewParser)
  /\ parser' = Len(parsers) + 1
  /\ calls' = [calls EXCEPT ![c].pc = "awaitAccess109", ![c].p = Len(parsers) + 1]

\* manufFileUpdated, lines 122-127, run by emit('updated') of downloader d:
\* with a parser, parser.reinitialize() is called and awaits the access check
UpdatedEmitted(d) ==
  IF downloaders[d].listeners /\ parser # 0
    THEN reinits' = Append(reinits, [p |-> parser, pc |-> "awaitAccess"])
    ELSE UNCHANGED reinits

\* init() of the downloader, throwErrorsOnInit being true, when stat settles
\* (part_000:61-73): outcome is "error" (stat failed, not ENOENT), "fresh" or
\* "expired"
InitStat(c, outcome) ==
  /\ calls[c].pc = "awaitStat"
  /\ outcome = "fresh" => manufFile.kind # "missing"
  /\ IF outcome = "error"
       THEN InitThrows(c) /\ UNCHANGED downloads
     ELSE IF outcome = "fresh"
       THEN InitReturns(c) /\ UNCHANGED downloads
     ELSE /\ downloads < MaxAttempts
          /\ downloads' = downloads + 1
          /\ calls' = [calls EXCEPT ![c].pc = "awaitDownload"]
          /\ UNCHANGED <<parser, parsers, downloaders>>
  /\ UNCHANGED <<manufFile, fileDownloader, reinits, refreshes, built, objectVars>>

\* the _downloadFile call of init() settles (part_000:73-79): it failed, or it
\* put file at filePath and emitted 'updated' (line 141)
InitDownload(c, ok, file) ==
  /\ calls[c].pc = "awaitDownload"
  /\ IF ok
       THEN /\ manufFile' = file
            /\ UpdatedEmitted(calls[c].d)
            /\ InitReturns(c)
       ELSE /\ InitThrows(c)
            /\ UNCHANGED <<manufFile, reinits>>
  /\ UNCHANGED <<fileDownloader, refreshes, downloads, built, objectVars>>

\* the promise of init() / lookup() that call c awaits rejects: at line 109 the
\* error reaches the catch of doLookup and cb(error); at line 37 nothing
\* catches it and doLookup itself rejects
ParserThrows(rec) ==
  IF rec.pc \in {"awaitAccess109", "parse109"}
    THEN [rec EXCEPT !.pc = "returned", !.cb = Append(@, "error")]
    ELSE [rec EXCEPT !.pc = "rejected"]

\* _ensureManufFile settles for the init() that call c awaits
CallAccess(c) ==
  /\ calls[c].pc \in {"awaitAccess109", "awaitAccess"}
  /\ calls' = [calls EXCEPT ![c] =
       IF manufFile.kind = "missing" THEN ParserThrows(@)
       ELSE [@ EXCEPT !.pc = IF @ = "awaitAccess109" THEN "parse109" ELSE "parse"]]
  /\ UNCHANGED <<manufFile, parser, fileDownloader, parsers, downloaders, reinits, refreshes,
                 downloads, built, objectVars>>

\* _parseManuf runs for the init() that call c awaits, lines 26-27
CallParse(c) ==
  /\ calls[c].pc \in {"parse109", "parse"}
  /\ LET rec == [calls[c] EXCEPT !.parses = @ + 1]
     IN  IF ParseManuf(manufFile).threw
           THEN /\ calls' = [calls EXCEPT ![c] = ParserThrows(rec)]
                /\ UNCHANGED <<parsers, built>>
           ELSE /\ parsers' = [parsers EXCEPT ![rec.p] = Parsed(@, manufFile)]
                /\ built' = TRUE
                /\ calls' = [calls EXCEPT ![c] =
                     [rec EXCEPT !.pc = IF rec.pc = "parse109" THEN "initialized"
                                                               ELSE "awaitInit"]]
  /\ UNCHANGED <<manufFile, parser, fileDownloader, downloaders, reinits, refreshes, downloads,
                 objectVars>>

\* doLookup after `await maybeInitializeParserAndDownloader`, lines 28-37
LoopStart(c) ==
  /\ calls[c].pc = "initialized"
  /\ calls' = [calls EXCEPT ![c] = StartLoop(@, parser)]
  /\ UNCHANGED <<manufFile, parser, fileDownloader, parsers, downloaders, reinits, refreshes,
                 downloads, built, objectVars>>

\* lookup after its await of init(), mac-parser.js:45-55, then lines 38-51 of
\* doLookup and the next turn of the loop
LookupStep(c) ==
  /\ calls[c].pc = "awaitInit"
  /\ LET rec == calls[c]
         pr  == parsers[rec.p]
         r   == Lookup(pr.entries, pr.sortedLens, rec.entities[Len(rec.results) + 1])
     IN  calls' = [calls EXCEPT ![c] =
           IF r.kind = "throw" THEN [rec EXCEPT !.pc = "rejected"]
           ELSE StartLoop([rec EXCEPT !.results = Append(@, r.kind)], parser)]
  /\ UNCHANGED <<manufFile, parser, fileDownloader, parsers, downloaders, reinits, refreshes,
                 downloads, built, objectVars>>

\* the job of downloader d fires: its callback calls _downloadFile()
CoJobFires(d) ==
  /\ downloaders[d].job
  /\ downloads < MaxAttempts
  /\ downloads' = downloads + 1
  /\ refreshes' = Append(refreshes, d)
  /\ UNCHANGED <<manufFile, parser, fileDownloader, parsers, downloaders, calls, reinits, built,
                 objectVars>>

\* a sequence without its k-th element
Without(q, k) == SubSeq(q, 1, k - 1) \o SubSeq(q, k + 1, Len(q))

\* the k-th refresh under way settles: it failed ('error', which
\* manufFileUpdateError logs), or it put file at filePath and emitted 'updated'
RefreshSettles(k, ok, file) ==
  /\ k \in 1..Len(refreshes)
  /\ refreshes' = Without(refreshes, k)
  /\ IF ok
       THEN /\ manufFile' = file
            /\ UpdatedEmitted(refreshes[k])
       ELSE UNCHANGED <<manufFile, reinits>>
  /\ UNCHANGED <<parser, fileDownloader, parsers, downloaders, calls, downloads, built,
                 objectVars>>

\* _ensureManufFile settles for the k-th reinitialize() under way; its
\* rejection is caught and logged by manufFileUpdated, lines 128-138
ReinitAccess(k) ==
  /\ k \in 1..Len(reinits)
  /\ reinits[k].pc = "awaitAccess"
  /\ reinits' = IF manufFile.kind = "missing" THEN Without(reinits, k)
                ELSE [reinits EXCEPT ![k].pc = "parse"]
  /\ UNCHANGED <<manufFile, parser, fileDownloader, parsers, downloaders, calls, refreshes,
                 downloads, built, objectVars>>

\* _parseManuf runs for the k-th reinitialize() under way, lines 32-33
ReinitParse(k) ==
  /\ k \in 1..Len(reinits)
  /\ reinits[k].pc = "parse"
  /\ reinits' = Without(reinits, k)
  /\ IF ParseManuf(manufFile).threw
       THEN UNCHANGED <<parsers, built>>
       ELSE /\ parsers' = [parsers EXCEPT ![reinits[k].p] = Parsed(@, manufFile)]
            /\ built' = TRUE
  /\ UNCHANGED <<manufFile, parser, fileDownloader, downloaders, calls, refreshes, downloads,
                 objectVars>>

\* the contents of the file at MANUF_FILE_PATH that are told apart: none, one
\* that parses, one that gunzipSync rejects
CoordinatorFiles == {MissingFile, TextFile(<<LineAcme24>>), CorruptFile}

\* the files a download may put at filePath
Downloadable == CoordinatorFiles \ {MissingFile}

CoordinatorInit ==
  /\ CoordinatorIdle
  /\ manufFile \in CoordinatorFiles
  /\ entries = EmptyMap
  /\ entriesKeys = <<>>
  /\ sortedLens = <<>>
  /\ ready = FALSE
  /\ pc = [t \in Tasks |-> "idle"]
  /\ arg = [t \in Tasks |-> <<>>]
  /\ result = [t \in Tasks |-> NoResult]
  /\ entriesFrom = MissingFile
  /\ lensFrom = MissingFile
  /\ now = 0
  /\ destIno = 0
  /\ tmpIno = [t \in 0..MaxTime |-> 0]
  /\ inodes = <<>>
  /\ throwErrorsOnInit = TRUE
  /\ hasErrorListener = TRUE
  /\ job = 0
  /\ jobs = <<>>
  /\ fired = {}
  /\ ipc = [i \in Inits |-> "uncalled"]
  /\ checked = [i \in Inits |-> NoCheck]
  /\ att = [a \in Attempts |-> NoAttempt]
  /\ initEvents = <<>>

CoordinatorNext ==
  \/ \E c \in Calls, autoUpdate \in BOOLEAN, es \in EntityLists : DoLookup(c, autoUpdate, es)
  \/ \E c \in Calls, outcome \in {"error", "fresh", "expired"} : InitStat(c, outcome)
  \/ \E c \in Calls, ok \in BOOLEAN, f \in Downloadable : InitDownload(c, ok, f)
  \/ \E c \in Calls : CallAccess(c)
  \/ \E c \in Calls : CallParse(c)
  \/ \E c \in Calls : LoopStart(c)
  \/ \E c \in Calls : LookupStep(c)
  \/ \E d \in 1..Len(downloaders) : CoJobFires(d)
  \/ \E k \in 1..Len(refreshes), ok \in BOOLEAN, f \in Downloadable : RefreshSettles(k, ok, f)
  \/ \E k \in 1..Len(reinits) : ReinitAccess(k)
  \/ \E k \in 1..Len(reinits) : ReinitParse(k)

SpecCoordinator == CoordinatorInit /\ [][CoordinatorNext]_vars

(* ------------------------------------------------------------------ *)
(* Properties of the index and of lookup                              *)
(* ------------------------------------------------------------------ *)

\* the lookup call t has run its scan (lines 45-55)
Scanned(t) ==
  /\ pc[t] \in {"returned", "rejected"}
  /\ result[t].kind \in {"hit", "null", "throw"}

\* a string of n hexadecimal digits, upper or lower case
IsHexString(s, n) == Len(s) = n /\ \A i \in 1..n : IsHexDigit(ToUpperChar(s[i]))

\* the first n bits of a 48-bit address a (zero bits beyond the 48th)
TopBits(a, n) ==
  IF n <= 0 THEN <<>>
  ELSE IF n <= 48 THEN SubSeq(a, 1, n)
  ELSE a \o Zeros(n - 48)

\* the prefix lengths of the index under which address a has an entry
MatchingLens(ents, a) ==
  {b \in DOMAIN ents : ~IsNaN(b) /\ Normalize(TopBits(a, b[1])) \in DOMAIN ents[b]}

MaxLen(lens) == CHOOSE b \in lens : \A c \in lens : c[1] <= b[1]

\* C1: for a built index and a full 12-digit address, lookup returns the entry
\* of the longest prefix length under which the address's top bits are stored,
\* and returns no match only when no prefix length matches.
LongestPrefixWins ==
  \A t \in LookupTasks :
    (Scanned(t) /\ IsHexString(StripSeparators(arg[t]), 12)) =>
      LET a == HexBits(Compact(arg[t]))
          m == MatchingLens(entries, a)
      IN  /\ m # {} =>
               /\ result[t].kind = "hit"
               /\ result[t].entry = entries[MaxLen(m)][Normalize(TopBits(a, MaxLen(m)[1]))]
          /\ result[t].kind = "null" => m = {}

\* C2: with the line `AC-DE-48` stored as a 24-bit prefix, every accepted address
\* (12, 10, 8 or 6 digits) beginning AC:DE:48 resolves to that entry.
AcmePrefixMatchesAnyLength ==
  \A t \in LookupTasks :
    LET c == Compact(arg[t])
    IN  ( /\ Scanned(t)
          /\ result[t].file = TextFile(<<LineAcme24>>)
          /\ \E n \in {6, 8, 10, 12} : IsHexString(c, n)
          /\ SubSeq(c, 1, 6) = <<"A","C","D","E","4","8">> )
        => /\ result[t].kind = "hit"
           /\ result[t].entry = ParseLine(LineAcme24).entry

\* C3: an input whose separator-stripped form is not exactly 12, 10, 8 or 6
\* hexadecimal digits gets "no match", whatever the index holds.
MalformedAddressNoMatch ==
  \A t \in LookupTasks :
    ( /\ pc[t] = "returned"
      /\ ~ \E n \in {6, 8, 10, 12} : IsHexString(StripSeparators(arg[t]), n) )
    => result[t].kind = "null"

\* C4: on an index that a build produced, lookup ends with an entry or with
\* "no match" and never raises.
LookupNeverRaises ==
  \A t \in LookupTasks : Scanned(t) => result[t].kind # "throw"

\* C5: the build of a readable, decompressible file does not fail, whatever
\* lines the file holds.
MalformedLinesSkipped ==
  \A t \in Tasks :
    (pc[t] = "rejected" /\ result[t].kind = "parseError") => result[t].file.kind # "ok"

\* C6: a rebuild that fails leaves the index as it was: every lookup answers as
\* before the attempt, and the failure is the rebuild call's rejection, no
\* lookup call being touched.
FailedRebuildKeepsIndex ==
  [][\A t \in ReinitTasks :
       (pc[t] \in {"awaitAccess", "parse"} /\ pc'[t] = "rejected") =>
         /\ entries' = entries
         /\ entriesKeys' = entriesKeys
         /\ sortedLens' = sortedLens
         /\ ready' = ready
         /\ \A m \in Macs : Lookup(entries', sortedLens', m) = Lookup(entries, sortedLens, m)
         /\ \A l \in LookupTasks : pc'[l] = pc[l] /\ result'[l] = result[l]]_vars

\* a rebuild failed in the middle of a readable file while an index was active
WitnessFailedRebuild ==
  /\ pc["R1"] = "rejected"
  /\ result["R1"].kind = "parseError"
  /\ result["R1"].file.kind = "ok"
  /\ ready
  /\ entries # EmptyMap

\* C7: whenever a lookup runs its scan, _entries and _sortedLens come from one
\* and the same completed build: the map is the parse of one file content and
\* the list is the sort of that map's keys.
LookupSeesOneBuild ==
  \A t \in LookupTasks :
    (pc[t] = "awaitInit" /\ ~Busy) =>
      /\ ready
      /\ entriesFrom = lensFrom
      /\ ~ParseManuf(entriesFrom).threw
      /\ entries = ParseManuf(entriesFrom).byBits
      /\ sortedLens = SortLens(ParseManuf(entriesFrom).keys)

\* a lookup is about to scan an index of two prefix lengths that a rebuild installed
WitnessScanAfterRebuild ==
  /\ pc["L1"] = "awaitInit"
  /\ pc["R1"] = "resolved"
  /\ Len(sortedLens) = 2
  /\ entriesFrom = TextFile(<<LineAcme36, LineOther24>>)

(* ------------------------------------------------------------------ *)
(* Properties of the downloader                                       *)
(* ------------------------------------------------------------------ *)

MostRecentTrigger(t) ==
  CHOOSE d \in (0 - CronPeriod)..(t - 1) :
    /\ d % CronPeriod = 0
    /\ \A e \in (0 - CronPeriod)..(t - 1) : e % CronPeriod = 0 => e <= d

\* the calls of _downloadFile that the init() call i made
RefreshesOf(i) == {a \in Attempts : att[a].origin = i}

\* C9: an init() call that found the file stale (missing, or modified before
\* the most recent trigger time) makes exactly one refresh attempt, one that
\* found it fresh makes none, and the job is installed only after that.
InitRefreshesOnceWhenStale ==
  \A i \in Inits :
    LET c     == checked[i]
        stale == c.kind = "absent" \/ c.mtime < MostRecentTrigger(c.now)
    IN  c.kind \in {"absent", "present"} =>
          /\ Cardinality(RefreshesOf(i)) = IF stale THEN 1 ELSE 0
          /\ ipc[i] \in {"download", "thrown"} => ~ \E j \in 1..Len(jobs) : jobs[j].by = i
          /\ ipc[i] = "download" => \E a \in RefreshesOf(i) : att[a].pc \notin {"done", "failed"}
          /\ ipc[i] = "done" =>
               /\ Cardinality({j \in 1..Len(jobs) : jobs[j].by = i}) = 1
               /\ \A a \in RefreshesOf(i) : att[a].pc \in {"done", "failed"}

\* init() found no file, its one refresh succeeded and the job is installed
WitnessInitRefreshedMissing ==
  /\ ipc["init1"] = "done"
  /\ checked["init1"].kind = "absent"
  /\ \E a \in Attempts : att[a].origin = "init1" /\ att[a].pc = "done"
  /\ job # 0

\* C10: no 'updated' event is emitted by a download that init() runs.
NoUpdatedDuringInit ==
  \A a \in Attempts :
    att[a].origin \in Inits => \A k \in 1..Len(att[a].events) : att[a].events[k] # "updated"

\* the registrations of the job that are not cancelled
ActiveJobs == {j \in 1..Len(jobs) : ~jobs[j].cancelled}

\* C11: whatever init() calls were made on the downloader, at most one
\* registration of its job is active, and it is the one held in this.job.
AtMostOneActiveJob ==
  /\ Cardinality(ActiveJobs) <= 1
  /\ \A j \in ActiveJobs : job = j

\* a second init() registered the job anew and the first registration is cancelled
WitnessRescheduled ==
  /\ Len(jobs) = 2
  /\ jobs[1].cancelled
  /\ ActiveJobs = {2}
  /\ jobs[1].by # jobs[2].by

\* C12: with throwErrorsOnInit false no init() call raises: a failure of the
\* staleness check is emitted as 'error' with stage init and followed by a
\* refresh attempt, and a call that is over has returned with the job installed.
NonPropagatingInitReturns ==
  ~throwErrorsOnInit =>
    \A i \in Inits :
      /\ ipc[i] # "thrown"
      /\ (checked[i].kind = "error") =>
            /\ \E k \in 1..Len(initEvents) : initEvents[k] = "error:init"
            /\ RefreshesOf(i) # {}
      /\ (ipc[i] = "done") => \E j \in 1..Len(jobs) : jobs[j].by = i

\* C13: a refresh started by the job's callback that fails emits exactly one
\* 'error', of stage download when the fetch failed (and then nothing was
\* written) and of stage write when mkdir, the temporary write or the rename
\* failed, and the callback's catch block swallows the exception, whatever
\* throwErrorsOnInit is.
RecurringFailureNotifiedOnce ==
  \A a \in Attempts :
    (att[a].origin = "job" /\ att[a].pc = "failed") =>
      /\ att[a].caught = "callback:150"
      /\ IF att[a].body = <<>>
           THEN att[a].events = <<"error:download">> /\ att[a].tmp = 0 /\ att[a].fd = 0
           ELSE att[a].events = <<"error:write">>

\* with throwErrorsOnInit set, a refresh of the job fetched a body and failed
\* while writing it
WitnessRecurringWriteFailed ==
  /\ throwErrorsOnInit
  /\ \E a \in Attempts :
       /\ att[a].origin = "job"
       /\ att[a].pc = "failed"
       /\ att[a].body # <<>>
       /\ att[a].events = <<"error:write">>

(* ------------------------------------------------------------------ *)
(* Properties of the built index                                      *)
(* ------------------------------------------------------------------ *)

\* C18: after a successful build every prefix length of the index is an
\* integer in 1..48, every key under it fits in that many bits, and
\* _sortedLens holds exactly the prefix lengths present, each once, in strictly
\* descending order.
IndexWellFormed ==
  (ready /\ ~Busy) =>
    /\ \A b \in DOMAIN entries :
         /\ ~IsNaN(b)
         /\ b[1] \in 1..48
         /\ \A k \in DOMAIN entries[b] : Len(k) <= b[1]
    /\ {sortedLens[i] : i \in 1..Len(sortedLens)} = DOMAIN entries
    /\ \A i, j \in 1..Len(sortedLens) :
         i < j => /\ ~IsNaN(sortedLens[i])
                  /\ ~IsNaN(sortedLens[j])
                  /\ sortedLens[i][1] > sortedLens[j][1]

\* a prefix token hexDigits or hexDigits/bitCount, both parts well formed
TokenWellFormed(token) ==
  LET tp == SplitChar(token, "/")
      hx == StripSeparators(tp[1])
  IN  /\ Len(tp) \in {1, 2}
      /\ hx # <<>>
      /\ IsHexString(hx, Len(hx))
      /\ Len(tp) = 2 => (tp[2] # <<>> /\ \A i \in 1..Len(tp[2]) : IsDecDigit(tp[2][i]))

\* the bit count a well-formed token states, 4 x its digits when it states none
TokenBitCount(token) ==
  LET tp == SplitChar(token, "/")
  IN  IF Len(tp) = 2 THEN DecValue(tp[2], 0) ELSE 4 * Len(StripSeparators(tp[1]))

\* the key the claim describes: the high bitCount bits of the token's digits when
\* the token is wider than bitCount, its digits followed by zero bits when narrower
TokenKey(token) ==
  LET tp   == SplitChar(token, "/")
      bits == HexBits(ToUpperCase(StripSeparators(tp[1])))
      n    == TokenBitCount(token)
  IN  Normalize(IF Len(bits) >= n THEN SubSeq(bits, 1, n) ELSE bits \o Zeros(n - Len(bits)))

\* C19: in a built index every line with a well-formed token is found under
\* (bitCount, key) as the claim computes them, unless a later line has the same
\* (bitCount, key), whose entry is then the one stored; with the one line
\* `00:00:0C/16` the index holds the key 0 under 16 bits, the address
\* 00:00:55:11:22:33 resolves to that entry and FF:00:0C:11:22:33 to none.
KeyComputation ==
  (ready /\ ~Busy /\ entriesFrom.kind = "ok") =>
    LET lines == entriesFrom.lines
    IN  /\ \A i \in 1..Len(lines) :
             LET r == ParseLine(lines[i])
             IN  (r.kind = "entry" /\ TokenWellFormed(r.entry.prefix)) =>
                   LET b == Num(TokenBitCount(r.entry.prefix))
                       k == TokenKey(r.entry.prefix)
                       later == {j \in (i + 1)..Len(lines) :
                                   /\ ParseLine(lines[j]).kind = "entry"
                                   /\ ParseLine(lines[j]).bits = b
                                   /\ ParseLine(lines[j]).key = k}
                   IN  /\ b \in DOMAIN entries
                       /\ k \in DOMAIN entries[b]
                       /\ later = {} => entries[b][k] = r.entry
                       /\ later # {} =>
                            \E j \in later : /\ \A m \in later : m <= j
                                              /\ entries[b][k] = ParseLine(lines[j]).entry
        /\ entriesFrom = TextFile(<<LineCisco16>>) =>
             /\ DOMAIN entries = {Num(16)}
             /\ DOMAIN entries[Num(16)] = {<<>>}
             /\ \A t \in LookupTasks :
                  Scanned(t) =>
                    /\ arg[t] = MacZero16 =>
                         result[t].kind = "hit" /\ result[t].entry = entries[Num(16)][<<>>]
                    /\ arg[t] = MacFF => result[t].kind = "null"

\* the 24-bit line `acde48 ...` replaced the entry of the earlier line `AC-DE-48`
\* and a lookup of AC:DE:48:12:34:56 returned it
WitnessLaterLineWins ==
  /\ entriesFrom = TextFile(<<LineAcme24, LineOther24>>)
  /\ pc["L1"] = "returned"
  /\ arg["L1"] = MacAcmeFull
  /\ result["L1"].kind = "hit"
  /\ result["L1"].entry = ParseLine(LineOther24).entry

(* ------------------------------------------------------------------ *)
(* Properties of refresh and rebuild together                         *)
(* ------------------------------------------------------------------ *)

\* no refresh and no rebuild is under way
Quiescent ==
  /\ \A a \in Attempts : att[a].pc \in {"unused", "done", "failed"}
  /\ \A t \in ReinitTasks : pc[t] \in Finished
  /\ ~Busy

\* C15: once the refreshes and the rebuilds they started are over and no
\* rebuild failed, the index answers as an index built from the destination
\* file as it now is.
RebuildFollowsRefresh ==
  ( /\ Quiescent
    /\ \A t \in ReinitTasks : pc[t] # "rejected"
    /\ ~ParseManuf(manufFile).threw )
  => \A m \in RebuildMacs :
       Lookup(entries, sortedLens, m) =
         Lookup(ParseManuf(manufFile).byBits, SortLens(ParseManuf(manufFile).keys), m)

\* C16: a lookup that ends while no index was ever built (the file is missing
\* or cannot be decompressed or parsed) ends with "no match", not with an error.
NoIndexMeansNoMatch ==
  \A t \in LookupTasks :
    (pc[t] \in {"returned", "rejected"} /\ ~ready) =>
      pc[t] = "returned" /\ result[t].kind = "null"

(* ------------------------------------------------------------------ *)
(* Properties of the coordinator                                      *)
(* ------------------------------------------------------------------ *)

\* C14: a doLookup call that began after some index had been built runs no
\* _parseManuf, whatever its autoUpdate option.
LookupsNeverReparse ==
  \A c \in Calls : calls[c].after => calls[c].parses = 0

\* C17: at most one of the downloaders the coordinator made has its job installed.
SingleRecurringJob ==
  Cardinality({d \in 1..Len(downloaders) : downloaders[d].job}) <= 1

\* C20: a doLookup call that is over has called cb exactly once, with an error
\* or with one result per entity.
CallbackExactlyOnce ==
  \A c \in Calls :
    calls[c].pc \in {"returned", "rejected"} =>
      /\ Len(calls[c].cb) = 1
      /\ calls[c].cb[1] = "results" => Len(calls[c].results) = Len(calls[c].entities)

====
